---------------------------- MODULE Spec2Model ----------------------------
(***************************************************************************)
(* A model of src/proprocessing/01_scrape.py: download_recursive, the      *)
(* recursive crawler that mirrors a remote directory listing into a local  *)
(* directory tree.                                                         *)
(*                                                                         *)
(* Strings (hrefs, URL paths, local paths) are sequences of one-character  *)
(* strings, so that endswith, strip, the regular expression, urljoin and   *)
(* os.path.join are computed character by character as the library code   *)
(* computes them.  A URL is represented by its path: scheme and host are   *)
(* those of archive_url throughout, since no href of the model carries a   *)
(* scheme, a host, a query or a fragment.                                  *)
(***************************************************************************)
EXTENDS Integers, Sequences, FiniteSets, TLC

(***************************************************************************)
(* Bounds of the model.                                                    *)
(***************************************************************************)
\* Python's recursion limit (sys.getrecursionlimit(), 1000 by default),
\* scaled down: the number of nested download_recursive calls after which
\* a further call raises RecursionError.
RecursionLimit == 4
\* The number of anchors after the first that a generated root listing holds.
MaxEntries == 2
\* The number of concurrent invocations of the download step (lines 19-23).
NumInvocations == 2

(***************************************************************************)
(* String helpers (str methods of Python).                                 *)
(***************************************************************************)
Slash == "/"

\* F applied to the value of x: x is evaluated once, before F's body.
Let(x, F(_)) == CHOOSE r \in {F(v) : v \in {x}} : TRUE

\* s.endswith(c) for a one-character c.
EndsWith(s, c) == Len(s) > 0 /\ s[Len(s)] = c

\* s.startswith(c) for a one-character c.
StartsWith(s, c) == Len(s) > 0 /\ s[1] = c

RECURSIVE LStrip(_)
LStrip(s) == IF StartsWith(s, Slash) THEN LStrip(Tail(s)) ELSE s

RECURSIVE RStrip(_)
RStrip(s) == IF EndsWith(s, Slash) THEN RStrip(SubSeq(s, 1, Len(s) - 1)) ELSE s

\* href.strip("/"): every leading and every trailing "/" removed.
Strip(s) == RStrip(LStrip(s))

\* s.split("/"): the segments between the separators (one more than the
\* number of separators; segments may be empty).
Split(s) ==
    LET n    == Len(s)
        seps == SelectSeq([i \in 1..n |-> i], LAMBDA i : s[i] = Slash)
        cut  == <<0>> \o seps \o <<n + 1>>
    IN  [k \in 1..(Len(cut) - 1) |-> SubSeq(s, cut[k] + 1, cut[k + 1] - 1)]

\* "/".join(segs)
RECURSIVE JoinSegs(_)
JoinSegs(segs) ==
    IF Len(segs) = 0 THEN <<>>
    ELSE IF Len(segs) = 1 THEN segs[1]
    ELSE segs[1] \o <<Slash>> \o JoinSegs(Tail(segs))

Dot == <<".">>
DotDot == <<".", ".">>

(***************************************************************************)
(* pattern = re.compile(r".*extent_v4.0.tif$"), used with pattern.match.   *)
(* The two dots of "v4.0.tif" are unescaped: each matches any character.   *)
(* No string of the model holds a newline, so ".*" matches any prefix and  *)
(* "$" matches only at the end of the string.                              *)
(***************************************************************************)
ANY == "ANY"

PatternTail ==
    <<"e", "x", "t", "e", "n", "t", "_", "v", "4", ANY, "0", ANY, "t", "i", "f">>

\* A variant: the pattern r".*", which every href matches.
PatternMatchAll(href) == Len(href) >= 0

PatternMatch(href) ==
    /\ Len(href) >= Len(PatternTail)
    /\ \A k \in 1..Len(PatternTail) :
          \/ PatternTail[k] = ANY
          \/ PatternTail[k] = href[Len(href) - Len(PatternTail) + k]

(***************************************************************************)
(* urllib.parse.urljoin(base, href), on the path of the base URL, for an   *)
(* href that is a relative reference made of a path only (CPython 3.11,    *)
(* urllib/parse.py).                                                       *)
(***************************************************************************)
\* segments[1:-1] = filter(None, segments[1:-1])
DropInnerEmpty(segs) ==
    IF Len(segs) <= 2 THEN segs
    ELSE <<segs[1]>>
         \o SelectSeq(SubSeq(segs, 2, Len(segs) - 1), LAMBDA x : x # <<>>)
         \o <<segs[Len(segs)]>>

\* The loop that removes "." and ".." segments: resolved_path after the
\* segments from position k on have been handled.
RECURSIVE RemoveDots(_, _, _)
RemoveDots(segs, k, acc) ==
    IF k > Len(segs) THEN acc
    ELSE IF segs[k] = DotDot
         THEN Let(IF Len(acc) = 0 THEN acc ELSE SubSeq(acc, 1, Len(acc) - 1),
                  LAMBDA a : RemoveDots(segs, k + 1, a))
    ELSE IF segs[k] = Dot THEN RemoveDots(segs, k + 1, acc)
    ELSE Let(Append(acc, segs[k]), LAMBDA a : RemoveDots(segs, k + 1, a))

\* base_parts: the segments of the base path, without its last segment
\* if that is a file name.
BaseParts(base) ==
    Let(Split(base),
        LAMBDA b : IF b[Len(b)] # <<>> THEN SubSeq(b, 1, Len(b) - 1) ELSE b)

\* '/'.join(resolved_path) or '/', with the leading "/" that urlunparse
\* gives the path of a URL with a host.
PathOf(resolved) ==
    Let(JoinSegs(resolved),
        LAMBDA joined : IF Len(joined) = 0 THEN <<Slash>>
                        ELSE IF StartsWith(joined, Slash) THEN joined
                        ELSE <<Slash>> \o joined)

UrlJoinSegments(segments) ==
    Let(RemoveDots(segments, 1, <<>>),
        LAMBDA resolved :
            PathOf(IF segments[Len(segments)] \in {Dot, DotDot}
                   THEN Append(resolved, <<>>) ELSE resolved))

UrlJoin(base, href) ==
    IF Len(href) = 0 THEN base
    ELSE Let(IF StartsWith(href, Slash) THEN Split(href)
             ELSE DropInnerEmpty(BaseParts(base) \o Split(href)),
             UrlJoinSegments)

(***************************************************************************)
(* os.path.join(a, b) of posixpath, for two arguments.                     *)
(***************************************************************************)
OsPathJoin(a, b) ==
    IF StartsWith(b, Slash) THEN b
    ELSE IF Len(a) = 0 \/ EndsWith(a, Slash) THEN a \o b
    ELSE a \o <<Slash>> \o b

(***************************************************************************)
(* The local file system.  A path names the object that the kernel's path  *)
(* resolution reaches: empty and "." components are dropped and ".." steps *)
(* to the parent (no symbolic links).  fs maps each resolved path that     *)
(* exists to its object; "." (the working directory) and "/" always exist. *)
(***************************************************************************)
\* The components that remain of segs from position k on, after acc.
RECURSIVE NormComps(_, _, _, _)
NormComps(segs, k, acc, abs) ==
    IF k > Len(segs) THEN acc
    ELSE IF segs[k] = <<>> \/ segs[k] = Dot THEN NormComps(segs, k + 1, acc, abs)
    ELSE IF segs[k] # DotDot
            \/ (~abs /\ Len(acc) = 0)
            \/ (Len(acc) > 0 /\ acc[Len(acc)] = DotDot)
         THEN Let(Append(acc, segs[k]),
                  LAMBDA a : NormComps(segs, k + 1, a, abs))
    ELSE IF Len(acc) > 0
         THEN Let(SubSeq(acc, 1, Len(acc) - 1),
                  LAMBDA a : NormComps(segs, k + 1, a, abs))
    ELSE NormComps(segs, k + 1, acc, abs)

ResolveSegments(segs, abs) ==
    Let(JoinSegs(NormComps(segs, 1, <<>>, abs)),
        LAMBDA p : IF abs THEN <<Slash>> \o p
                   ELSE IF Len(p) = 0 THEN Dot ELSE p)

Resolve(path) ==
    Let(Split(path), LAMBDA segs : ResolveSegments(segs, StartsWith(path, Slash)))

\* The directory that holds the object at a resolved path.
ParentOfSegments(segs) ==
    IF Len(segs) = 1 THEN Dot
    ELSE Let(JoinSegs(SubSeq(segs, 1, Len(segs) - 1)),
             LAMBDA head : IF Len(head) = 0 THEN <<Slash>> ELSE head)

ParentOf(rp) ==
    IF rp = <<Slash>> \/ rp = Dot THEN rp
    ELSE Let(Split(rp), ParentOfSegments)

\* The resolved path and every directory above it, outermost first.
RECURSIVE Chain(_)
Chain(rp) ==
    IF rp = <<Slash>> \/ rp = Dot THEN <<rp>>
    ELSE Let(ParentOf(rp), LAMBDA up : Append(Chain(up), rp))

\* What a file holds: the status and the URL of the response whose body was
\* written to it.  NoData is the content of a directory and of a file that
\* holds nothing (created or truncated, and never written).
NoData == [status |-> 0, src |-> <<>>]
DirObj == [kind |-> "dir", data |-> NoData]
FileObj(data) == [kind |-> "file", data |-> data]

\* A variant: os.path.exists(href), the bare name looked up in the working
\* directory instead of the joined path.
PathExistsBare(fsys, path) ==
    Let(Split(path), LAMBDA segs : Resolve(segs[Len(segs)]) \in DOMAIN fsys)

\* A variant: a file that holds nothing counts as absent
\* (os.path.exists(path) and os.path.getsize(path) > 0).
PathExistsNonEmpty(fsys, path) ==
    \E rp \in {Resolve(path)} :
        /\ rp \in DOMAIN fsys
        /\ fsys[rp].kind = "file" => fsys[rp].data # NoData

\* os.path.exists(path)
PathExists(fsys, path) == Resolve(path) \in DOMAIN fsys


IsDir(fsys, rp) == rp \in DOMAIN fsys /\ fsys[rp].kind = "dir"

\* os.makedirs(path, exist_ok=True) succeeds iff no component of the path
\* exists as something other than a directory; it then creates the missing
\* components, outermost first.
CanMakeDirs(fsys, path) ==
    \E ch \in {Chain(Resolve(path))} :
        \A k \in 1..Len(ch) : ch[k] \in DOMAIN fsys => fsys[ch[k]].kind = "dir"

\* The directories of the chain ch from position k on, added where missing.
RECURSIVE AddDirs(_, _, _)
AddDirs(fsys, ch, k) ==
    IF k > Len(ch) THEN fsys
    ELSE IF ch[k] \in DOMAIN fsys THEN AddDirs(fsys, ch, k + 1)
    ELSE Let((ch[k] :> DirObj) @@ fsys, LAMBDA f : AddDirs(f, ch, k + 1))

\* A variant: os.makedirs(os.path.dirname(outdir), exist_ok=True), which
\* makes the directories above outdir only.
MakeDirsParents(fsys, path) ==
    Let(Chain(Resolve(path)),
        LAMBDA ch : AddDirs(fsys, SubSeq(ch, 1, Len(ch) - 1), 1))

MakeDirsResult(fsys, path) ==
    Let(Chain(Resolve(path)), LAMBDA ch : AddDirs(fsys, ch, 1))

\* open(path, "wb") succeeds iff the directory holding the path exists and
\* the path itself is not a directory; it creates the file or truncates it.
CanOpenForWrite(fsys, path) ==
    \E rp \in {Resolve(path)} :
        /\ \E up \in {ParentOf(rp)} : IsDir(fsys, up)
        /\ ~IsDir(fsys, rp)

\* with open(path, "wb") as f: f.write(data)
WriteResult(fsys, path, data) == (Resolve(path) :> FileObj(data)) @@ fsys

(***************************************************************************)
(* Names of the remote archive and of the local mirror.                    *)
(***************************************************************************)
\* The path of archive_url, cut to its last component.
ArchivePath == <<"/", "g", "e", "o", "t", "i", "f", "f", "/">>
\* The default of the parameter outdir.
OutDir == <<"d", "a", "t", "a">>

Parent == <<".", ".", "/">>
Home == <<"/">>
D2021 == <<"2", "0", "2", "1", "/">>
D2022 == <<"2", "0", "2", "2", "/">>
Subdir == <<"s", "u", "b", "d", "i", "r", "/">>
AbsD2021 == <<"/", "2", "0", "2", "1", "/">>
SeaIce == <<"s", "e", "a", "i", "c", "e", "_", "e", "x", "t", "e", "n", "t", "_", "v", "4", ".", "0", ".", "t", "i", "f">>
Readme == <<"r", "e", "a", "d", "m", "e", ".", "t", "x", "t">>
F2021 == <<"f", "i", "l", "e", "_", "2", "0", "2", "1", "0", "1", "0", "1", "_", "e", "x", "t", "e", "n", "t", "_", "v", "4", ".", "0", ".", "t", "i", "f">>
F2022 == <<"n", "_", "e", "x", "t", "e", "n", "t", "_", "v", "4", ".", "0", ".", "t", "i", "f">>
Nested == D2022 \o F2022

Url2021 == ArchivePath \o D2021
Url2022 == ArchivePath \o D2022
UrlSubdir == ArchivePath \o Subdir
UrlDeep == Url2021 \o Subdir

(***************************************************************************)
(* The remote server.  remote holds what varies from one archive to        *)
(* another: the listing of the root directory, the listing of 2021/, the   *)
(* status the server answers a listing request for 2021/ with, and the     *)
(* status it answers file requests with.  The server does not change       *)
(* during a behaviour.                                                     *)
(***************************************************************************)
VARIABLES
    remote,     \* the archive served (see above)
    fs,         \* the local file system: resolved path -> object
    fs0,        \* the local file system before the first crawl
    fs1,        \* the local file system when the first crawl returned
    stack,      \* the call stack of download_recursive, innermost frame last
    pc,         \* "run", "done" (the call of line 26 returned), "error"
    err,        \* the exception that ended the crawl, and the URL it is about
    run,        \* 1: the first crawl, 2: the crawl repeated
    listed,     \* the listing requests answered in this crawl, in order
    gets,       \* the file requests issued in this crawl, in order
    skipped,    \* the local paths found to exist at line 19 in this crawl
    mapped,     \* the (remote URL, local path) pairs computed in this crawl
    maxDepth,   \* the deepest nesting of calls in this crawl
    inv         \* the concurrent invocations of lines 19-23 (SpecConc only)

vars == <<remote, fs, fs0, fs1, stack, pc, err, run, listed, gets, skipped,
          mapped, maxDepth, inv>>

\* The body of an error page: a link home and a link to a help text.
ErrorPage == <<Home, Readme>>

\* r = requests.get(url) for a directory URL: the status and the anchors
\* that soup.find_all("a") finds in r.text.
ListingResponse(rem, url) ==
    IF url = ArchivePath THEN [status |-> 200, anchors |-> rem.rootL]
    ELSE IF url = Url2021
         THEN IF rem.st2021 = 200
              THEN [status |-> 200, anchors |-> rem.subL]
              ELSE [status |-> rem.st2021, anchors |-> ErrorPage]
    ELSE IF url = Url2022 THEN [status |-> 200, anchors |-> <<Parent, F2022>>]
    ELSE IF url = UrlSubdir THEN [status |-> 200, anchors |-> <<Parent, Readme>>]
    ELSE IF url = UrlDeep THEN [status |-> 200, anchors |-> <<Parent, SeaIce>>]
    ELSE IF url = AbsD2021 THEN [status |-> 200, anchors |-> <<Parent, F2021>>]
    ELSE [status |-> 404, anchors |-> ErrorPage]

\* requests.get(full_url).content for a file URL.
FileResponse(rem, url) == [status |-> rem.stFile, src |-> url]

Is2xx(status) == status >= 200 /\ status < 300

(***************************************************************************)
(* The archives and the local states a behaviour may start from.           *)
(***************************************************************************)
RECURSIVE SeqsUpTo(_, _)
SeqsUpTo(S, n) ==
    IF n = 0 THEN {<<>>}
    ELSE LET shorter == SeqsUpTo(S, n - 1)
         IN  shorter \cup {Append(q, x) : q \in shorter, x \in S}

FirstAnchors == {Parent, SeaIce, D2021}
Entries == {D2021, D2022, AbsD2021, SeaIce, Readme, Nested}

\* The listing of section 8 of the specification ("Pattern filtering").
ExampleListing == <<Parent, SeaIce, Readme, Subdir>>

\* Every listing of at most MaxEntries entries after a parent link, the
\* short listings whose first anchor is a file or a sub-directory, and some
\* listings of interest.
RootListings ==
    {<<Parent>> \o r : r \in SeqsUpTo(Entries, MaxEntries)}
    \cup {<<f>> \o r : f \in FirstAnchors, r \in SeqsUpTo(Entries, 1)}
    \cup {<<>>, ExampleListing, <<Parent, Parent, SeaIce>>}

SubListings ==
    { <<Parent, F2021>>,          \* one matching file
      <<Parent, Readme>>,         \* no matching file
      <<Parent, F2021, Subdir>>,  \* a matching file and a sub-directory
      <<Parent, F2021, Parent>> } \* a link back to the parent: a cycle

\* An error response carries the error page, whatever the directory holds.
Remotes ==
    {r \in [rootL : RootListings, subL : SubListings, st2021 : {200, 404},
            stFile : {200, 404}] :
        r.st2021 = 200 \/ r.subL = <<Parent, F2021>>}

BaseFs == [rp \in {Dot, <<Slash>>} |-> DirObj]

OldData == [status |-> 200, src |-> <<"o", "l", "d">>]

LocalStates ==
    LET data == MakeDirsResult(BaseFs, OutDir)
        d21  == OsPathJoin(OutDir, Strip(D2021))
    IN  { BaseFs,
          \* a file left truncated by an interrupted run
          WriteResult(data, OsPathJoin(OutDir, SeaIce), NoData),
          \* a regular file where the crawl wants a directory
          WriteResult(data, d21, OldData),
          \* a file downloaded by an earlier run
          WriteResult(MakeDirsResult(data, d21), OsPathJoin(d21, F2021), OldData) }

(***************************************************************************)
(* download_recursive(url, outdir): one frame of the call stack.           *)
(* stage is the place in the body: "makedirs" (line 8), "get" (lines       *)
(* 9-10), "loop" (lines 12-23, at the anchor of index i).  seen is the     *)
(* sequence of hrefs the loop body has run on.                             *)
(***************************************************************************)
Frame(url, outdir) ==
    [url |-> url, outdir |-> outdir, stage |-> "makedirs", status |-> 0,
     anchors |-> <<>>, i |-> 0, seen |-> <<>>]

NoErr == [kind |-> "none", url |-> <<>>]

NoInv == [k \in {} |-> 0]

\* Line 26: download_recursive(archive_url).
Init ==
    /\ remote \in Remotes
    /\ fs0 \in LocalStates
    /\ fs = fs0
    /\ fs1 = fs0
    /\ stack = <<Frame(ArchivePath, OutDir)>>
    /\ pc = "run"
    /\ err = NoErr
    /\ run = 1
    /\ listed = <<>>
    /\ gets = <<>>
    /\ skipped = {}
    /\ mapped = {[url |-> ArchivePath, path |-> OutDir]}
    /\ maxDepth = 1
    /\ inv = NoInv

Top == stack[Len(stack)]

Running(stage) == pc = "run" /\ Top.stage = stage

\* The crawl ends with an exception that no frame catches.
Raise(kind, url) ==
    /\ pc' = "error"
    /\ err' = [kind |-> kind, url |-> url]
    /\ UNCHANGED <<stack, run, remote, fs0, fs1, maxDepth, inv>>

\* Line 8: os.makedirs(outdir, exist_ok=True).
MakeDirs ==
    /\ Running("makedirs")
    /\ CanMakeDirs(fs, Top.outdir)
    /\ fs' = MakeDirsResult(fs, Top.outdir)
    /\ stack' = [stack EXCEPT ![Len(stack)].stage = "get"]
    /\ UNCHANGED <<remote, fs0, fs1, pc, err, run, listed, gets, skipped,
                   mapped, maxDepth, inv>>

\* Line 8 when a component of outdir exists and is no directory.
MakeDirsRaise ==
    /\ Running("makedirs")
    /\ ~CanMakeDirs(fs, Top.outdir)
    /\ Raise("OSError", Top.url)
    /\ UNCHANGED <<fs, listed, gets, skipped, mapped>>

\* A variant: soup.find_all("a") without the slice, the loop starting at
\* the first anchor.
FirstIndexAll == 2 - 1

\* The index of the first anchor the loop of line 12 runs on: [1:] drops
\* the anchor of index 1.
FirstIndex == 2

\* Lines 9-10: the listing is requested and parsed, whatever its status.
GetListing ==
    /\ Running("get")
    /\ LET r == ListingResponse(remote, Top.url)
       IN  /\ stack' = [stack EXCEPT ![Len(stack)] =
                          [@ EXCEPT !.stage = "loop", !.status = r.status,
                                    !.anchors = r.anchors, !.i = FirstIndex]]
           /\ listed' = Append(listed, [url |-> Top.url, status |-> r.status])
    /\ UNCHANGED <<remote, fs, fs0, fs1, pc, err, run, gets, skipped, mapped,
                   maxDepth, inv>>

\* Line 9 when requests.get raises (no connection, a timeout).
GetListingRaise ==
    /\ Running("get")
    /\ Raise("ConnectionError", Top.url)
    /\ UNCHANGED <<fs, listed, gets, skipped, mapped>>

\* The loop of line 12 is at an anchor.
AtEntry == Running("loop") /\ Top.i <= Len(Top.anchors)
Href == Top.anchors[Top.i]
\* A variant: the recursive call is given url, not full_url.
FullUrlSame == Top.url

FullUrl == UrlJoin(Top.url, Href)
ChildDir == OsPathJoin(Top.outdir, Strip(Href))
LocalPath == OsPathJoin(Top.outdir, Href)

\* The frame of the caller once the loop body has run on the anchor.
Advanced == [Top EXCEPT !.i = @ + 1, !.seen = Append(@, Href)]

\* Lines 15-16: the recursive call.
Recurse ==
    /\ AtEntry
    /\ EndsWith(Href, Slash)
    /\ Len(stack) < RecursionLimit
    /\ stack' = Append([stack EXCEPT ![Len(stack)] = Advanced],
                       Frame(FullUrl, ChildDir))
    /\ mapped' = mapped \cup {[url |-> FullUrl, path |-> ChildDir]}
    /\ maxDepth' = IF Len(stack) + 1 > maxDepth THEN Len(stack) + 1 ELSE maxDepth
    /\ UNCHANGED <<remote, fs, fs0, fs1, pc, err, run, listed, gets, skipped, inv>>

\* Line 16 when the interpreter's recursion limit is reached.
RecurseOverflow ==
    /\ AtEntry
    /\ EndsWith(Href, Slash)
    /\ Len(stack) >= RecursionLimit
    /\ Raise("RecursionError", FullUrl)
    /\ UNCHANGED <<fs, listed, gets, skipped, mapped>>

\* Lines 15, 17: neither a directory nor a match.
Ignore ==
    /\ AtEntry
    /\ ~EndsWith(Href, Slash)
    /\ ~PatternMatch(Href)
    /\ stack' = [stack EXCEPT ![Len(stack)] = Advanced]
    /\ UNCHANGED <<remote, fs, fs0, fs1, pc, err, run, listed, gets, skipped,
                   mapped, maxDepth, inv>>

\* Lines 17-19: a match whose local path exists.
SkipExisting ==
    /\ AtEntry
    /\ ~EndsWith(Href, Slash)
    /\ PatternMatch(Href)
    /\ PathExists(fs, LocalPath)
    /\ stack' = [stack EXCEPT ![Len(stack)] = Advanced]
    /\ skipped' = skipped \cup {LocalPath}
    /\ mapped' = mapped \cup {[url |-> FullUrl, path |-> LocalPath]}
    /\ UNCHANGED <<remote, fs, fs0, fs1, pc, err, run, listed, gets, maxDepth, inv>>

\* The record of a file request: the status is 0 when no response came.
GetRecord(status) == [url |-> FullUrl, path |-> LocalPath, status |-> status]

\* Lines 17-23: a match whose local path does not exist is requested and
\* the body of the response, whatever its status, is written.
Download ==
    /\ AtEntry
    /\ ~EndsWith(Href, Slash)
    /\ PatternMatch(Href)
    /\ ~PathExists(fs, LocalPath)
    /\ CanOpenForWrite(fs, LocalPath)
    /\ LET r == FileResponse(remote, FullUrl)
       IN  /\ gets' = Append(gets, GetRecord(r.status))
           /\ fs' = WriteResult(fs, LocalPath, r)
    /\ stack' = [stack EXCEPT ![Len(stack)] = Advanced]
    /\ mapped' = mapped \cup {[url |-> FullUrl, path |-> LocalPath]}
    /\ UNCHANGED <<remote, fs0, fs1, pc, err, run, listed, skipped, maxDepth, inv>>

\* Line 21 when requests.get raises.
DownloadGetRaise ==
    /\ AtEntry
    /\ ~EndsWith(Href, Slash)
    /\ PatternMatch(Href)
    /\ ~PathExists(fs, LocalPath)
    /\ gets' = Append(gets, GetRecord(0))
    /\ mapped' = mapped \cup {[url |-> FullUrl, path |-> LocalPath]}
    /\ Raise("ConnectionError", FullUrl)
    /\ UNCHANGED <<fs, listed, skipped>>

\* Line 22 when open raises: the directory of the path does not exist.
DownloadOpenRaise ==
    /\ AtEntry
    /\ ~EndsWith(Href, Slash)
    /\ PatternMatch(Href)
    /\ ~PathExists(fs, LocalPath)
    /\ ~CanOpenForWrite(fs, LocalPath)
    /\ gets' = Append(gets, GetRecord(FileResponse(remote, FullUrl).status))
    /\ mapped' = mapped \cup {[url |-> FullUrl, path |-> LocalPath]}
    /\ Raise("OSError", FullUrl)
    /\ UNCHANGED <<fs, listed, skipped>>

\* The loop of line 12 has run out of anchors in a nested call: it returns
\* to its caller.
Return ==
    /\ Running("loop")
    /\ Top.i > Len(Top.anchors)
    /\ Len(stack) > 1
    /\ stack' = SubSeq(stack, 1, Len(stack) - 1)
    /\ UNCHANGED <<remote, fs, fs0, fs1, pc, err, run, listed, gets, skipped,
                   mapped, maxDepth, inv>>

\* The same in the call of line 26: the crawl is over.
Finish ==
    /\ Running("loop")
    /\ Top.i > Len(Top.anchors)
    /\ Len(stack) = 1
    /\ pc' = "done"
    /\ UNCHANGED <<remote, fs, fs0, fs1, stack, err, run, listed, gets, skipped,
                   mapped, maxDepth, inv>>

\* The script is run again against the same archive and the same mirror.
SecondRun ==
    /\ pc = "done"
    /\ run = 1
    /\ run' = 2
    /\ fs1' = fs
    /\ stack' = <<Frame(ArchivePath, OutDir)>>
    /\ pc' = "run"
    /\ listed' = <<>>
    /\ gets' = <<>>
    /\ skipped' = {}
    /\ mapped' = {[url |-> ArchivePath, path |-> OutDir]}
    /\ maxDepth' = 1
    /\ UNCHANGED <<remote, fs, fs0, err, inv>>

Next ==
    \/ MakeDirs
    \/ MakeDirsRaise
    \/ GetListing
    \/ GetListingRaise
    \/ Recurse
    \/ RecurseOverflow
    \/ Ignore
    \/ SkipExisting
    \/ Download
    \/ DownloadGetRaise
    \/ DownloadOpenRaise
    \/ Return
    \/ Finish
    \/ SecondRun

Spec == Init /\ [][Next]_vars

(***************************************************************************)
(* The crawl of an archive that is a finite tree, with every request       *)
(* answered 200 and no error of the local file system: in every listing    *)
(* the anchors after the first name children of the directory.             *)
(***************************************************************************)
\* href names a child: one path component, with a trailing "/" if it is a
\* directory.
IsChildName(href) ==
    LET name == IF EndsWith(href, Slash) THEN SubSeq(href, 1, Len(href) - 1)
                ELSE href
    IN  /\ Len(name) > 0
        /\ \A k \in 1..Len(name) : name[k] # Slash
        /\ name \notin {Dot, DotDot}

ChildrenOnly(anchors) ==
    \A k \in 2..Len(anchors) : IsChildName(anchors[k])

IsTree(rem) ==
    /\ rem.st2021 = 200
    /\ rem.stFile = 200
    /\ ChildrenOnly(rem.rootL)
    /\ ChildrenOnly(rem.subL)

\* The depth of the remote tree below a directory, the directory counted.
RECURSIVE TreeDepth(_, _)
TreeDepth(rem, url) ==
    LET anchors == ListingResponse(rem, url).anchors
        subs == {UrlJoin(url, anchors[k]) :
                    k \in {j \in 2..Len(anchors) : EndsWith(anchors[j], Slash)}}
        depths == {TreeDepth(rem, u) : u \in subs}
    IN  IF subs = {} THEN 1
        ELSE 1 + CHOOSE d \in depths : \A e \in depths : e <= d

InitTree ==
    /\ Init
    /\ IsTree(remote)
    /\ CanMakeDirs(fs0, OsPathJoin(OutDir, Strip(D2021)))

NextTree ==
    \/ MakeDirs
    \/ GetListing
    \/ Recurse
    \/ Ignore
    \/ SkipExisting
    \/ Download
    \/ Return
    \/ Finish

\* The interpreter runs the script to its end: a step that can be taken is
\* taken.
SpecTree == InitTree /\ [][NextTree]_vars /\ WF_vars(NextTree)

(***************************************************************************)
(* Lines 19-23 run by several invocations at once, as a worker pool that   *)
(* downloads sibling files would run them.  Each invocation is at "check"  *)
(* (line 19), "get" (lines 20-21), "open" (line 22), "write" (line 23), or *)
(* has ended: "skipped", "raised", "done".                                 *)
(***************************************************************************)
Invocations == 1..NumInvocations

ConcFiles == {SeaIce, F2022}

InitConc ==
    /\ remote \in {r \in Remotes : r.rootL = ExampleListing /\ r.st2021 = 200
                                   /\ r.subL = <<Parent, F2021>>}
    /\ fs0 \in {MakeDirsResult(BaseFs, OutDir),
                WriteResult(MakeDirsResult(BaseFs, OutDir),
                            OsPathJoin(OutDir, SeaIce), NoData)}
    /\ fs = fs0
    /\ fs1 = fs0
    /\ stack = <<>>
    /\ pc = "conc"
    /\ err = NoErr
    /\ run = 1
    /\ listed = <<>>
    /\ gets = <<>>
    /\ skipped = {}
    /\ mapped = {}
    /\ maxDepth = 0
    /\ inv \in [Invocations ->
                  {[pc |-> "check", url |-> UrlJoin(ArchivePath, f),
                    path |-> OsPathJoin(OutDir, f), data |-> NoData] :
                      f \in ConcFiles}]

crawlVars == <<remote, fs0, fs1, stack, pc, err, run, listed, mapped, maxDepth>>

\* A variant: a claim-before-fetch registry, in which a path that another
\* invocation has passed the check for counts as existing.
InvCheckClaimed(p) ==
    LET claimed == \E q \in Invocations \ {p} :
                      /\ inv[q].path = inv[p].path
                      /\ inv[q].pc \in {"get", "open", "write", "done"}
        found   == claimed \/ PathExists(fs, inv[p].path)
    IN  /\ inv[p].pc = "check"
        /\ inv' = [inv EXCEPT ![p].pc = IF found THEN "skipped" ELSE "get"]
        /\ skipped' = IF found THEN skipped \cup {inv[p].path} ELSE skipped
        /\ UNCHANGED <<fs, gets, remote, fs0, fs1, stack, pc, err, run, listed,
                       mapped, maxDepth>>

\* Line 19: if not os.path.exists(path).
InvCheck(p) ==
    /\ inv[p].pc = "check"
    /\ inv' = [inv EXCEPT ![p].pc =
                 IF PathExists(fs, inv[p].path) THEN "skipped" ELSE "get"]
    /\ skipped' = IF PathExists(fs, inv[p].path)
                  THEN skipped \cup {inv[p].path} ELSE skipped
    /\ UNCHANGED <<fs, gets>>
    /\ UNCHANGED crawlVars

\* Lines 20-21: file_data = requests.get(full_url).content.
InvGet(p) ==
    /\ inv[p].pc = "get"
    /\ LET r == FileResponse(remote, inv[p].url)
       IN  /\ inv' = [inv EXCEPT ![p].pc = "open", ![p].data = r]
           /\ gets' = Append(gets, [url |-> inv[p].url, path |-> inv[p].path,
                                    status |-> r.status])
    /\ UNCHANGED <<fs, skipped>>
    /\ UNCHANGED crawlVars

\* Line 21 when requests.get raises.
InvGetRaise(p) ==
    /\ inv[p].pc = "get"
    /\ inv' = [inv EXCEPT ![p].pc = "raised"]
    /\ gets' = Append(gets, [url |-> inv[p].url, path |-> inv[p].path,
                             status |-> 0])
    /\ UNCHANGED <<fs, skipped>>
    /\ UNCHANGED crawlVars

\* Line 22: open(path, "wb") creates the file or truncates it.
InvOpen(p) ==
    /\ inv[p].pc = "open"
    /\ fs' = WriteResult(fs, inv[p].path, NoData)
    /\ inv' = [inv EXCEPT ![p].pc = "write"]
    /\ UNCHANGED <<gets, skipped>>
    /\ UNCHANGED crawlVars

\* Line 23: f.write(file_data), and the file is closed.
InvWrite(p) ==
    /\ inv[p].pc = "write"
    /\ fs' = WriteResult(fs, inv[p].path, inv[p].data)
    /\ inv' = [inv EXCEPT ![p].pc = "done"]
    /\ UNCHANGED <<gets, skipped>>
    /\ UNCHANGED crawlVars

NextConc ==
    \E p \in Invocations :
        \/ InvCheck(p)
        \/ InvGet(p)
        \/ InvGetRaise(p)
        \/ InvOpen(p)
        \/ InvWrite(p)

SpecConc == InitConc /\ [][NextConc]_vars

(***************************************************************************)
(* Properties.                                                             *)
(***************************************************************************)
FilesOf(fsys) == {rp \in DOMAIN fsys : fsys[rp].kind = "file"}

\* The resolved path q lies below the directory rp.
Beneath(q, rp) ==
    /\ Len(q) > Len(rp) + 1
    /\ SubSeq(q, 1, Len(rp) + 1) = rp \o <<Slash>>

DataDir == Resolve(OutDir)
SeaIcePath == OsPathJoin(OutDir, SeaIce)
Dir2021 == OsPathJoin(OutDir, Strip(D2021))
File2021Path == OsPathJoin(Dir2021, F2021)
Dir2022 == OsPathJoin(OutDir, Strip(D2022))
File2022Path == OsPathJoin(Dir2022, F2022)
DirSubdir == OsPathJoin(OutDir, Strip(Subdir))

\* k1 < k2 are positions after the first of the hrefs a and b in a listing.
LaterSibling(anchors, a, b) ==
    \E k1, k2 \in 2..Len(anchors) :
        k1 < k2 /\ anchors[k1] = a /\ anchors[k2] = b

(***************************************************************************)
(* C1.  Idempotence: once a first crawl has returned without error, a      *)
(* second crawl of the unchanged archive into the unchanged mirror issues  *)
(* no file request, and the local file system stays, in every state of     *)
(* the second crawl, what the first crawl left.                            *)
(***************************************************************************)
C1_Idempotent == run = 2 => (gets = <<>> /\ fs = fs1)

\* The second crawl has returned, and it skipped a file that the first crawl
\* downloaded.
C1_Witness ==
    /\ run = 2
    /\ pc = "done"
    /\ Len(listed) >= 2
    /\ \E p \in skipped :
          /\ Resolve(p) \notin DOMAIN fs0
          /\ Resolve(p) \in FilesOf(fs)

(***************************************************************************)
(* C2.  Pattern filtering.  Whenever the loop body runs on an anchor:      *)
(* (a) an href ending in "/" is recursed into (a new frame for the joined  *)
(* URL and the joined directory, unless the recursion limit raises) and    *)
(* causes no file request and no write; (b) another href that matches the  *)
(* pattern and whose local path join(outdir, href) does not exist is       *)
(* requested, and its body written to that path unless the request or the  *)
(* write raises; a matching href whose path exists causes no request and   *)
(* no write; (c) any other href causes no request and no write.  For the   *)
(* listing ../, seaice_extent_v4.0.tif, readme.txt, subdir/ and an empty   *)
(* mirror, the crawl requests and writes seaice_extent_v4.0.tif alone and  *)
(* lists subdir/.                                                          *)
(***************************************************************************)
C2_EntryStep ==
    AtEntry =>
      IF EndsWith(Href, Slash)
      THEN /\ gets' = gets
           /\ fs' = fs
           /\ pc' = "run" =>
                /\ Len(stack') = Len(stack) + 1
                /\ stack'[Len(stack')].url = FullUrl
                /\ stack'[Len(stack')].outdir = ChildDir
      ELSE IF PatternMatch(Href) /\ Resolve(LocalPath) \notin DOMAIN fs
      THEN /\ Len(gets') = Len(gets) + 1
           /\ gets'[Len(gets')].url = FullUrl
           /\ gets'[Len(gets')].path = LocalPath
           /\ pc' = "run" =>
                /\ DOMAIN fs' = DOMAIN fs \cup {Resolve(LocalPath)}
                /\ fs'[Resolve(LocalPath)].kind = "file"
                /\ fs'[Resolve(LocalPath)].data.src = FullUrl
      ELSE /\ gets' = gets
           /\ fs' = fs
           /\ Len(stack') = Len(stack)

C2_Example ==
    (remote.rootL = ExampleListing /\ fs0 = BaseFs /\ run = 1 /\ pc = "done") =>
        /\ {gets[k].url : k \in 1..Len(gets)} = {ArchivePath \o SeaIce}
        /\ FilesOf(fs) = {SeaIcePath}
        /\ IsDir(fs, DirSubdir)
        /\ \E k \in 1..Len(listed) : listed[k].url = UrlSubdir

C2_Filter == [][C2_EntryStep]_vars /\ []C2_Example

C2_Witness ==
    /\ remote.rootL = ExampleListing
    /\ fs0 = BaseFs
    /\ run = 1
    /\ pc = "done"
    /\ Len(gets) = 1

(***************************************************************************)
(* C3.  First-anchor skip.  In every frame the loop body has run on        *)
(* exactly the anchors of positions 2 .. i-1, in listing order, and a      *)
(* frame returns only when it has run on all of the positions 2 .. n; so   *)
(* the anchor of position 1 is never classified, matched, recursed into    *)
(* or downloaded.  A listing that holds one anchor only, be it a matching  *)
(* file or a sub-directory, causes no request but its own and no write.    *)
(***************************************************************************)
C3_Frames ==
    \A k \in 1..Len(stack) :
        stack[k].stage = "loop" =>
            /\ stack[k].i >= 2
            /\ stack[k].seen = SubSeq(stack[k].anchors, 2, stack[k].i - 1)

C3_ReturnStep ==
    (pc = "run" /\ (Len(stack') < Len(stack) \/ pc' = "done")) =>
        Top.seen = SubSeq(Top.anchors, 2, Len(Top.anchors))

C3_OnlyFirst ==
    (run = 1 /\ pc = "done" /\ Len(remote.rootL) = 1) =>
        /\ gets = <<>>
        /\ Len(listed) = 1
        /\ FilesOf(fs) = FilesOf(fs0)
        /\ DOMAIN fs = DOMAIN fs0 \cup {DataDir}

C3_FirstAnchorSkipped ==
    []C3_Frames /\ [][C3_ReturnStep]_vars /\ []C3_OnlyFirst

\* A crawl has returned whose root listing starts with a matching file
\* followed by a sub-directory: the file was not downloaded, the directory
\* was listed.
C3_Witness ==
    /\ run = 1
    /\ pc = "done"
    /\ remote.rootL = <<SeaIce, D2022>>
    /\ fs0 = BaseFs
    /\ Resolve(SeaIcePath) \notin DOMAIN fs
    /\ Len(listed) = 2

(***************************************************************************)
(* C4.  Partial-subtree failure isolation, as claimed: when the crawl is   *)
(* over and the listing request for 2021/ failed (it raised, or it was     *)
(* answered with a status that is not 2xx), a later sibling 2022/ has      *)
(* been listed and its matching file is in the mirror.                     *)
(***************************************************************************)
ListingFailed(url) ==
    \/ err.kind = "ConnectionError" /\ err.url = url
    \/ \E k \in 1..Len(listed) :
          listed[k].url = url /\ ~Is2xx(listed[k].status)

C4_Isolation ==
    (/\ run = 1
     /\ pc \in {"done", "error"}
     /\ ListingFailed(Url2021)
     /\ LaterSibling(remote.rootL, D2021, D2022)) =>
        /\ \E k \in 1..Len(listed) : listed[k].url = Url2022
        /\ Resolve(File2022Path) \in FilesOf(fs)

(***************************************************************************)
(* C5.  Skip-if-exists and no mutation.  No step of the crawl removes an   *)
(* object of the local file system or changes it; what existed before the  *)
(* crawl is what it was; and when the loop body runs on a matching href    *)
(* whose local path exists, whatever the object there holds, no request    *)
(* is issued and nothing is written.                                       *)
(***************************************************************************)
C5_KeepStep ==
    \A rp \in DOMAIN fs : rp \in DOMAIN fs' /\ fs'[rp] = fs[rp]

C5_SkipStep ==
    (/\ AtEntry
     /\ ~EndsWith(Href, Slash)
     /\ PatternMatch(Href)
     /\ Resolve(LocalPath) \in DOMAIN fs) =>
        gets' = gets /\ fs' = fs

C5_Kept == \A rp \in DOMAIN fs0 : rp \in DOMAIN fs /\ fs[rp] = fs0[rp]

C5_SkipIfExists == [][C5_KeepStep /\ C5_SkipStep]_vars /\ []C5_Kept

\* The first crawl found the truncated file of an interrupted run at the
\* path of a matching href and left it as it was.
C5_Witness ==
    /\ run = 1
    /\ SeaIcePath \in skipped
    /\ Resolve(SeaIcePath) \in DOMAIN fs0
    /\ fs0[Resolve(SeaIcePath)] = FileObj(NoData)
    /\ fs[Resolve(SeaIcePath)] = FileObj(NoData)
    /\ \A k \in 1..Len(gets) : gets[k].path # SeaIcePath

(***************************************************************************)
(* C6.  Injectivity of the path mapping, as claimed: no two distinct       *)
(* remote URLs reached in a crawl are given the same local path.           *)
(***************************************************************************)
C6_Injective ==
    \A a, b \in mapped : a.path = b.path => a.url = b.url

(***************************************************************************)
(* C7.  Non-2xx responses are fetch failures, as claimed: no listing is    *)
(* parsed from, and no file written from, a response whose status is not   *)
(* 2xx.                                                                    *)
(***************************************************************************)
C7_Non2xxFails ==
    /\ \A k \in 1..Len(stack) :
          stack[k].stage = "loop" => Is2xx(stack[k].status)
    /\ \A rp \in FilesOf(fs) \ DOMAIN fs0 : Is2xx(fs[rp].data.status)

(***************************************************************************)
(* C8.  Directory creation.  As claimed: a local directory made by the     *)
(* crawl for a remote sub-directory exists only once a matching file has   *)
(* been found beneath it.                                                  *)
(***************************************************************************)
MatchFoundBeneath(rp) ==
    \E m \in mapped :
        /\ ~EndsWith(m.path, Slash)
        /\ PatternMatch(m.path)
        /\ Beneath(Resolve(m.path), rp)

C8_AfterMatch ==
    \A rp \in DOMAIN fs \ DOMAIN fs0 :
        (fs[rp].kind = "dir" /\ rp # DataDir) => MatchFoundBeneath(rp)

(***************************************************************************)
(* C8 as amended: the local directory of a call exists from the first      *)
(* statement of the call on, before the listing is requested and whether   *)
(* or not a matching file lies beneath it; and for the tree 2021/ holding  *)
(* file_20210101_extent_v4.0.tif the crawl of an empty mirror writes       *)
(* data/2021/file_20210101_extent_v4.0.tif and no other file.              *)
(***************************************************************************)
C8_DirOnEntry ==
    /\ \A k \in 1..Len(stack) :
          stack[k].stage # "makedirs" => IsDir(fs, Resolve(stack[k].outdir))
    /\ (/\ remote.rootL = <<Parent, D2021>>
        /\ remote.subL = <<Parent, F2021>>
        /\ remote.st2021 = 200
        /\ fs0 = BaseFs
        /\ pc = "done") =>
            /\ FilesOf(fs) = {File2021Path}
            /\ fs[File2021Path].data.src = Url2021 \o F2021

\* The crawl has returned, it made data/subdir, and nothing that matches
\* was found beneath it.
C8_Witness ==
    /\ run = 1
    /\ pc = "done"
    /\ Resolve(DirSubdir) \notin DOMAIN fs0
    /\ IsDir(fs, Resolve(DirSubdir))
    /\ ~MatchFoundBeneath(Resolve(DirSubdir))
    /\ \A q \in DOMAIN fs : ~Beneath(q, Resolve(DirSubdir))

(***************************************************************************)
(* C9.  Termination (SpecTree): on a finite tree, with every request       *)
(* answered, the call of line 26 returns, the nesting of calls never       *)
(* exceeds the depth of the tree, and the deepest nesting reached is the   *)
(* depth of the tree.                                                      *)
(***************************************************************************)
C9_Depth ==
    /\ Len(stack) <= TreeDepth(remote, ArchivePath)
    /\ pc = "done" => maxDepth = TreeDepth(remote, ArchivePath)

C9_Terminates == <>(pc = "done") /\ []C9_Depth

\* The crawl of a tree of depth 3 has returned.
C9_Witness == pc = "done" /\ maxDepth = 3 /\ Len(listed) >= 3

(***************************************************************************)
(* C10.  Check-then-write race (SpecConc).  The outcome of the existence   *)
(* check of an invocation depends on the file system alone, not on what    *)
(* the other invocations are doing, and an invocation that found the path  *)
(* absent requests the file and writes it without checking again: every    *)
(* invocation that passed the check has issued its own request once it is  *)
(* past line 21.  Hence two invocations on one absent path can both pass   *)
(* the check and both request and write (the witness).                     *)
(***************************************************************************)
C10_Step ==
    \A p \in Invocations :
        /\ (inv[p].pc = "check" /\ inv'[p].pc # "check") =>
              inv'[p].pc = IF Resolve(inv[p].path) \in DOMAIN fs
                           THEN "skipped" ELSE "get"
        /\ (inv[p].pc = "get" /\ inv'[p].pc # "get") =>
              /\ inv'[p].pc \in {"open", "raised"}
              /\ Len(gets') = Len(gets) + 1
        /\ (inv[p].pc = "open" /\ inv'[p].pc # "open") =>
              /\ inv'[p].pc = "write"
              /\ fs'[Resolve(inv[p].path)] = FileObj(NoData)
        /\ (inv[p].pc = "write" /\ inv'[p].pc # "write") =>
              /\ inv'[p].pc = "done"
              /\ fs'[Resolve(inv[p].path)] = FileObj(inv[p].data)

C10_Race == [][C10_Step]_vars

\* Two invocations on the same path, absent at the start, have both
\* requested the file and both written it.
C10_Witness ==
    \E p, q \in Invocations :
        /\ p # q
        /\ inv[p].path = inv[q].path
        /\ Resolve(inv[p].path) \notin DOMAIN fs0
        /\ inv[p].pc = "done"
        /\ inv[q].pc = "done"
        /\ \E i, j \in 1..Len(gets) :
              i < j /\ gets[i].path = inv[p].path /\ gets[j].path = inv[p].path

=============================================================================
